---- MODULE Spec2Model ----
(***************************************************************************)
(* Order lifecycle and deferred decision e-mails of the HariBookStore      *)
(* backend: the payment controller (createOrder, confirmOrder,             *)
(* updateOrderStatus), the Payment schema and the e-mail scheduler         *)
(* (checkAndSendEmails, sendStatusEmail).                                  *)
(*                                                                         *)
(* Time is counted in hours.  A handler runs at one instant: every         *)
(* `new Date()` / `Date.now()` it evaluates reads the same value `now`.    *)
(*                                                                         *)
(* Specifications:                                                         *)
(*   Spec            one order through its whole life; mail transport and  *)
(*                   store are available.                                  *)
(*   SpecFault       the three request handlers while the mail transport   *)
(*                   fails at will.                                        *)
(*   SpecStoreFault  the three request handlers while store writes fail at *)
(*                   will.                                                 *)
(*   SpecLookup      the three request handlers, with order identifiers of  *)
(*                   any form.                                             *)
(*   SpecCreate      createOrder calls in flight together, each a lookup   *)
(*                   by UTR followed, later, by the insert.                *)
(*   SpecSweepMail   sweeps over several decided orders while the mail     *)
(*                   transport fails at will.                              *)
(*   SpecSweepFault  the same, and store writes fail at will too.          *)
(*   SpecAdvance     updateOrderStatus calls in flight together, each a    *)
(*                   read of the order followed, later, by the save.       *)
(*   SpecOverlap     sweeps in flight together, each a query followed by   *)
(*                   a send and a flag write per order found, with         *)
(*                   confirmOrder calls in between.                        *)
(***************************************************************************)
EXTENDS Integers, Sequences, FiniteSets, TLC

\* ---------------------------------------------------------------- bounds
MaxTime == 2
MaxCount == 2
\* send attempts / store writes of one operation that the environment may fail
MaxAttempts == 2
\* createOrder calls in flight in SpecCreate
MaxCalls == 2
\* decided orders in the store at the start of SpecSweepMail / SpecSweepFault
SweepOrders == 2

\* ------------------------------------------------------ program constants
FIXED_BOOK_PRICE == 1
DELIVERY_CHARGE == 34
EXPECTED_TOTAL == FIXED_BOOK_PRICE + DELIVERY_CHARGE
TwoHours == 2

\* allowedStates with one state dropped
allowedStatesWithoutOdisha == {"Andhra Pradesh", "Telangana"}

allowedStates == {"Andhra Pradesh", "Telangana", "Odisha"}
validStatuses == {"pending", "confirmed", "processing", "shipped", "delivered", "cancelled"}
verificationEnum == {"pending", "verified", "failed"}

\* A Date path of the schema that was never assigned (undefined), and one that
\* was assigned null.  Both are falsy in JavaScript; real dates are >= 0.
Unset == 0 - 1
NullDate == 0 - 2
IsSet(d) == d >= 0

\* ------------------------------------------------------------ input sets
\* Spec follows one order through its life: every handler reads and writes
\* only the document its orderId names, and a sweep treats each document it
\* finds on its own.  Requests may name the order before it exists.
OrderIds == {1}
\* An :orderId that is not the text of an ObjectId (24 hex digits).
MalformedId == 0
IdInputs == OrderIds \cup {MalformedId}
Catalog == {"B1"}
\* createOrder requests: a well-formed one, and the same with one field changed
\* (missing: one of the required text fields not listed here is empty).
ValidRequest ==
    [missing |-> FALSE, mobile |-> "9876543210", pincode |-> "500001",
     state |-> "Telangana", bookCode |-> "B1",
     utr |-> "100000000001", amount |-> 35]
CreateInputs ==
    {ValidRequest,
     [ValidRequest EXCEPT !.utr = "100000000002", !.state = "Odisha"],
     [ValidRequest EXCEPT !.missing = TRUE],
     [ValidRequest EXCEPT !.mobile = "12345"],
     [ValidRequest EXCEPT !.pincode = "5000"],
     [ValidRequest EXCEPT !.state = "Kerala"],
     [ValidRequest EXCEPT !.bookCode = "BX"],
     [ValidRequest EXCEPT !.utr = "12345"],
     [ValidRequest EXCEPT !.amount = 0],
     [ValidRequest EXCEPT !.amount = 36]}
NoteInputs == {"", "n1"}
VerificationInputs == {"", "verified", "failed", "pending", "bogus"}
StatusInputs == validStatuses \cup {"bogus"}
Attempts == 1..MaxAttempts
Calls == 1..MaxCalls

\* /^\d{10}$/, /^\d{6}$/ and /^\d{12}$/ on the values of CreateInputs
mobileValidator(v) == v \in {"9876543210"}
pincodeValidator(v) == v \in {"500001"}
utrValidator(v) == v \in {"100000000001", "100000000002"}

VARIABLES
    store,       \* the Payment collection: order id -> document
    now,         \* the clock (hours)
    lastOp,      \* the last request (or sweep) run: the order it names, the
                 \* verificationStatus / status it carries, its HTTP status
    outbox,      \* the notification attempts made by that operation, in order
    decisionMails, \* per order: decision e-mails attempted, by Decide or the
                 \* Sweeper, since a Decide last moved the order out of pending
    sweepMails,  \* per order: decision e-mails attempted by the Sweeper
    mailDown,    \* environment: the send attempts of the next operation
                 \* (first, second, ...) at which the transport throws
    saveDown,    \* environment: the store writes of the next operation
                 \* (first, second, ...) that fail
    calls        \* the calls (SpecCreate: of createOrder, SpecOverlap: of
                 \* checkAndSendEmails, SpecAdvance: of updateOrderStatus that
                 \* found their order) started so far, in the order of their
                 \* start, and where each stands; used by the specifications
                 \* that follow a call await by await

vars == <<store, now, lastOp, outbox, decisionMails, sweepMails,
          mailDown, saveDown, calls>>

Inc(n) == IF n < MaxCount THEN n + 1 ELSE n

Op(name, id, arg, code) == [op |-> name, id |-> id, arg |-> arg, code |-> code]
Mail(kind, id, ok) == [kind |-> kind, id |-> id, ok |-> ok]

\* JavaScript `a || b` on strings
Or(a, b) == IF a # "" THEN a ELSE b

\* Payment.findById casts its argument to an ObjectId and throws a CastError
\* for a string that is not one.
objectIdValid(id) == id # MalformedId

sendOk(n) == n \notin mailDown

\* saveOk of a handler that does not notice the failure of its write
saveOkAssumed(n) == TRUE

saveOk(n) == n \notin saveDown

Init ==
    /\ store = <<>>
    /\ now = 0
    /\ lastOp = Op("init", 0, "", 0)
    /\ outbox = <<>>
    /\ decisionMails = <<>>
    /\ sweepMails = <<>>
    /\ mailDown = {}
    /\ saveDown = {}
    /\ calls = <<>>

\* Reject that has notified the shop before it answers
RejectAfterNotifying(name, id, arg, code) ==
    /\ lastOp' = Op(name, id, arg, code)
    /\ outbox' = <<Mail("admin-new-order", id, sendOk(1))>>
    /\ UNCHANGED <<store, now, decisionMails, sweepMails>>

\* A request that is answered without touching the store or sending mail.
Reject(name, id, arg, code) ==
    /\ lastOp' = Op(name, id, arg, code)
    /\ outbox' = <<>>
    /\ UNCHANGED <<store, now, decisionMails, sweepMails>>

\* --------------------------------------------- the controller's send functions
\* mailErrorEscapes with the catch of the send function missing
mailErrorRethrown(ok) == ~ok

\* Each send function of the controller wraps its whole body, transporter
\* construction included, in try/catch and only logs: no error leaves it.
mailErrorEscapes(ok) == FALSE

\* attempted of a handler that gives up at the first mail that fails
RECURSIVE attemptedUntilFailure(_)
attemptedUntilFailure(mails) ==
    IF mails = <<>> THEN <<>>
    ELSE IF ~Head(mails).ok THEN <<Head(mails)>>
    ELSE <<Head(mails)>> \o attemptedUntilFailure(Tail(mails))

\* The attempts a handler makes of the mails it awaits one after another: an
\* error that escaped would skip the rest.
RECURSIVE attempted(_)
attempted(mails) ==
    IF mails = <<>> THEN <<>>
    ELSE IF mailErrorEscapes(Head(mails).ok) THEN <<Head(mails)>>
    ELSE <<Head(mails)>> \o attempted(Tail(mails))

\* The status the handler answers with after its save and its mails: an
\* escaped error lands in the handler's catch.
respond(mails, code) ==
    IF \E i \in DOMAIN mails : mailErrorEscapes(mails[i].ok) THEN 500 ELSE code

\* ------------------------------------------------------------ createOrder
\* priceMismatch that only rejects too small an amount
priceMismatchBelow(amount) == amount < EXPECTED_TOTAL

priceMismatch(amount) == amount # EXPECTED_TOTAL

\* The checks of createOrder before it builds the document: the status of the
\* rejection, 0 if the request passes.
createOrderCheck(req) ==
    IF req.missing \/ req.mobile = "" \/ req.pincode = "" \/ req.state = ""
       \/ req.bookCode = "" \/ req.utr = "" \/ req.amount = 0
    THEN 400
    ELSE IF req.state \notin allowedStates THEN 400
    ELSE IF req.bookCode \notin Catalog THEN 404
    ELSE IF priceMismatch(req.amount) THEN 400
    ELSE IF \E o \in DOMAIN store : store[o].utr = req.utr THEN 400
    ELSE 0

\* The validators save() runs on the new document.
schemaValid(req) ==
    /\ mobileValidator(req.mobile)
    /\ pincodeValidator(req.pincode)
    /\ utrValidator(req.utr)

\* uniqueIndexViolated for a collection without the unique index
uniqueIndexMissing(utr) == FALSE

\* The unique index on payment.utr refuses the insert of a second document
\* with the same UTR.
uniqueIndexViolated(utr) == \E o \in DOMAIN store : store[o].utr = utr

\* newOrder.save(), the two mails and the response; an error of save() lands
\* in the catch of createOrder.
createOrderSave(req) ==
    LET id == Len(store) + 1
        mails == <<Mail("admin-new-order", id, sendOk(1)),
                   Mail("customer-order-received", id, sendOk(2))>>
    IN
    IF ~schemaValid(req) \/ uniqueIndexViolated(req.utr) \/ ~saveOk(1)
    THEN Reject("createOrder", 0, "", 500)
    ELSE
        /\ store' = Append(store,
              [utr |-> req.utr, amount |-> req.amount, price |-> FIXED_BOOK_PRICE,
               state |-> req.state, verificationStatus |-> "pending",
               orderStatus |-> "pending", adminNotes |-> "",
               createdAt |-> now, confirmedDate |-> Unset,
               shippedDate |-> Unset, deliveredDate |-> Unset,
               emailSent |-> FALSE, emailSentDate |-> Unset])
        /\ outbox' = attempted(mails)
        /\ lastOp' = Op("createOrder", id, "", respond(mails, 201))
        /\ decisionMails' = Append(decisionMails, 0)
        /\ sweepMails' = Append(sweepMails, 0)
        /\ UNCHANGED now

createOrder(req) ==
    IF createOrderCheck(req) # 0
    THEN Reject("createOrder", 0, "", createOrderCheck(req))
    ELSE createOrderSave(req)

CreateOrder ==
    /\ \E req \in CreateInputs : createOrder(req)
    /\ DOMAIN store' \subseteq OrderIds
    /\ UNCHANGED <<mailDown, saveDown, calls>>

\* ----------------------------------------------------------- confirmOrder
\* The four field writes of confirmOrder.
verificationStatusAfter(verificationStatus) == Or(verificationStatus, "verified")

orderStatusAfter(verificationStatus) ==
    IF verificationStatus = "verified" THEN "confirmed" ELSE "cancelled"

confirmedDateAfter(order, verificationStatus) ==
    IF verificationStatus = "verified" THEN now ELSE NullDate

\* confirmOrderWrites that also clears the e-mail flag for the new decision
confirmOrderWritesResettingFlag(order, adminNotes, verificationStatus) ==
    [order EXCEPT
        !.verificationStatus = verificationStatusAfter(verificationStatus),
        !.orderStatus = orderStatusAfter(verificationStatus),
        !.confirmedDate = confirmedDateAfter(order, verificationStatus),
        !.adminNotes = Or(adminNotes, ""),
        !.emailSent = FALSE]

\* The document confirmOrder saves.
confirmOrderWrites(order, adminNotes, verificationStatus) ==
    [order EXCEPT
        !.verificationStatus = verificationStatusAfter(verificationStatus),
        !.orderStatus = orderStatusAfter(verificationStatus),
        !.confirmedDate = confirmedDateAfter(order, verificationStatus),
        !.adminNotes = Or(adminNotes, "")]

\* The customer e-mail confirmOrder attempts after the save.
confirmOrderMail(orderId, verificationStatus) ==
    IF verificationStatus = "verified"
    THEN <<Mail("order-confirmed", orderId, sendOk(1))>>
    ELSE <<Mail("order-cancelled", orderId, sendOk(1))>>

confirmOrder(orderId, adminNotes, verificationStatus) ==
    IF ~objectIdValid(orderId)
    THEN Reject("confirmOrder", orderId, verificationStatus, 500)
    ELSE IF orderId \notin DOMAIN store
    THEN Reject("confirmOrder", orderId, verificationStatus, 404)
    ELSE
    LET order == store[orderId]
        updated == confirmOrderWrites(order, adminNotes, verificationStatus)
        mails == confirmOrderMail(orderId, verificationStatus)
    IN
    \* save() validates payment.verificationStatus against the schema's enum
    IF updated.verificationStatus \notin verificationEnum \/ ~saveOk(1)
    THEN Reject("confirmOrder", orderId, verificationStatus, 500)
    ELSE
        /\ store' = [store EXCEPT ![orderId] = updated]
        /\ outbox' = attempted(mails)
        /\ decisionMails' = [decisionMails EXCEPT ![orderId] =
                                IF order.orderStatus = "pending"
                                THEN 1 ELSE Inc(@)]
        /\ lastOp' = Op("confirmOrder", orderId, verificationStatus, respond(mails, 200))
        /\ UNCHANGED <<now, sweepMails>>

Decide ==
    /\ \E orderId \in OrderIds, adminNotes \in NoteInputs,
          verificationStatus \in VerificationInputs :
            confirmOrder(orderId, adminNotes, verificationStatus)
    /\ UNCHANGED <<mailDown, saveDown, calls>>

\* ------------------------------------------------------ updateOrderStatus
\* shippedDateAfter without the test that the date is still unset
shippedDateOverwritten(order, status) ==
    IF status = "shipped" THEN now ELSE order.shippedDate

shippedDateAfter(order, status) ==
    IF status = "shipped" /\ ~IsSet(order.shippedDate) THEN now ELSE order.shippedDate

deliveredDateAfter(order, status) ==
    IF status = "delivered" /\ ~IsSet(order.deliveredDate) THEN now ELSE order.deliveredDate

\* sendOrderStatusUpdateEmail without the default branch of its switch
sendOrderStatusUpdateEmailAlways(order, id) ==
    <<Mail(order.orderStatus, id, sendOk(1))>>

sendOrderStatusUpdateEmail(order, id) ==
    IF order.orderStatus \in {"processing", "shipped", "delivered"}
    THEN <<Mail(order.orderStatus, id, sendOk(1))>>
    ELSE <<>>

\* The document updateOrderStatus saves.
updateOrderStatusWrites(order, status, adminNotes) ==
    [order EXCEPT
        !.orderStatus = status,
        !.adminNotes = Or(adminNotes, order.adminNotes),
        !.shippedDate = shippedDateAfter(order, status),
        !.deliveredDate = deliveredDateAfter(order, status)]

updateOrderStatus(orderId, status, adminNotes) ==
    IF status \notin validStatuses
    THEN Reject("updateOrderStatus", orderId, status, 400)
    ELSE IF ~objectIdValid(orderId)
    THEN Reject("updateOrderStatus", orderId, status, 500)
    ELSE IF orderId \notin DOMAIN store
    THEN Reject("updateOrderStatus", orderId, status, 404)
    ELSE
    LET order == store[orderId]
        updated == updateOrderStatusWrites(order, status, adminNotes)
        mails == sendOrderStatusUpdateEmail(updated, orderId)
    IN
    IF ~saveOk(1)
    THEN Reject("updateOrderStatus", orderId, status, 500)
    ELSE
        /\ store' = [store EXCEPT ![orderId] = updated]
        /\ outbox' = attempted(mails)
        /\ lastOp' = Op("updateOrderStatus", orderId, status, respond(mails, 200))
        /\ UNCHANGED <<now, decisionMails, sweepMails>>

AdvanceStatus ==
    /\ \E orderId \in OrderIds, status \in StatusInputs, adminNotes \in NoteInputs :
            updateOrderStatus(orderId, status, adminNotes)
    /\ UNCHANGED <<mailDown, saveDown, calls>>

\* ----------------------------------------------------- checkAndSendEmails
\* ordersToEmail without the emailSent condition
ordersToEmailIgnoringFlag(order) ==
    /\ order.createdAt <= now - TwoHours
    /\ order.orderStatus \in {"confirmed", "cancelled"}

\* ordersToEmail without the createdAt condition
ordersToEmailIgnoringAge(order) ==
    /\ order.emailSent # TRUE
    /\ order.orderStatus \in {"confirmed", "cancelled"}

\* The filter of Payment.find in checkAndSendEmails.
ordersToEmail(order) ==
    /\ order.createdAt <= now - TwoHours
    /\ order.emailSent # TRUE
    /\ order.orderStatus \in {"confirmed", "cancelled"}

\* The documents the query returns, from id on, in the order the loop visits them.
RECURSIVE found(_)
found(id) ==
    IF id > Len(store) THEN <<>>
    ELSE (IF ordersToEmail(store[id]) THEN <<id>> ELSE <<>>) \o found(id + 1)

\* The e-mail sendStatusEmail attempts for a document, if any.  The send
\* functions of the scheduler catch and log their own errors.
sendStatusEmail(order, id, ok) ==
    IF order.orderStatus = "confirmed" THEN <<Mail("order-confirmed", id, ok)>>
    ELSE IF order.orderStatus = "cancelled" THEN <<Mail("order-cancelled", id, ok)>>
    ELSE <<>>

\* markSent that marks only an order whose e-mail went out
markSentOnSuccess(order, ok) ==
    IF ok THEN [order EXCEPT !.emailSent = TRUE, !.emailSentDate = now] ELSE order

\* The two assignments sendStatusEmail makes after the send, whatever its outcome.
markSent(order, ok) ==
    [order EXCEPT !.emailSent = TRUE, !.emailSentDate = now]

\* saveErrorEscapes with the try/catch of sendStatusEmail missing
saveErrorRethrown(ok) == ~ok

\* sendStatusEmail catches and logs the error of order.save(): it never
\* reaches the loop of checkAndSendEmails.
saveErrorEscapes(ok) == FALSE

\* How many of the found documents the loop gets to, from the k-th on.
RECURSIVE visited(_, _)
visited(ids, k) ==
    IF k > Len(ids) THEN Len(ids)
    ELSE IF saveErrorEscapes(saveOk(k)) THEN k
    ELSE visited(ids, k + 1)

\* The e-mails of one run over the found documents k..n.
RECURSIVE sweepOutbox(_, _, _)
sweepOutbox(ids, k, n) ==
    IF k > n THEN <<>>
    ELSE sendStatusEmail(store[ids[k]], ids[k], sendOk(k)) \o sweepOutbox(ids, k + 1, n)

checkAndSendEmails ==
    LET ids == found(1)
        n == visited(ids, 1)
        reached == {ids[k] : k \in 1..n}
        pos(o) == CHOOSE k \in 1..n : ids[k] = o
    IN
    /\ store' = [o \in DOMAIN store |->
                    IF o \in reached /\ saveOk(pos(o))
                    THEN markSent(store[o], sendOk(pos(o)))
                    ELSE store[o]]
    /\ outbox' = sweepOutbox(ids, 1, n)
    /\ sweepMails' = [o \in DOMAIN store |->
                        IF o \in reached /\ sendStatusEmail(store[o], o, TRUE) # <<>>
                        THEN Inc(sweepMails[o])
                        ELSE sweepMails[o]]
    /\ decisionMails' = [o \in DOMAIN store |->
                        IF o \in reached /\ sendStatusEmail(store[o], o, TRUE) # <<>>
                        THEN Inc(decisionMails[o])
                        ELSE decisionMails[o]]
    /\ lastOp' = Op("checkAndSendEmails", 0, "", 0)
    /\ UNCHANGED now

Sweeper ==
    /\ checkAndSendEmails
    /\ UNCHANGED <<mailDown, saveDown, calls>>

\* ------------------------------------------------------------------ time
\* Time passes between operations.  The clock is read from the creation of
\* the first order on: the handlers and the sweep use dates only to compare
\* them with each other and with the current time.
Tick ==
    /\ store # <<>>
    /\ now < MaxTime
    /\ now' = now + 1
    /\ UNCHANGED <<store, lastOp, outbox, decisionMails, sweepMails,
                   mailDown, saveDown, calls>>

Next ==
    \/ CreateOrder
    \/ Decide
    \/ AdvanceStatus
    \/ Sweeper
    \/ Tick

Spec == Init /\ [][Next]_vars

\* The scheduler fires on its interval for ever and the clock does not stop.
SpecLive == Spec /\ WF_vars(Sweeper) /\ WF_vars(Tick)

\* ----------------------------------------------------------- environment
\* The mail transport starts or stops failing.
MailFault ==
    /\ mailDown' \in SUBSET Attempts
    /\ mailDown' # mailDown
    /\ UNCHANGED <<store, now, lastOp, outbox, decisionMails, sweepMails,
                   saveDown, calls>>

\* The store starts or stops refusing writes.
StoreFault ==
    /\ saveDown' \in SUBSET Attempts
    /\ saveDown' # saveDown
    /\ UNCHANGED <<store, now, lastOp, outbox, decisionMails, sweepMails,
                   mailDown, calls>>

NextFault ==
    \/ CreateOrder
    \/ Decide
    \/ AdvanceStatus
    \/ MailFault

SpecFault == Init /\ [][NextFault]_vars

NextStoreFault ==
    \/ CreateOrder
    \/ Decide
    \/ AdvanceStatus
    \/ StoreFault

SpecStoreFault == Init /\ [][NextStoreFault]_vars

\* ------------------------------------------- requests naming any identifier
DecideById ==
    /\ \E orderId \in IdInputs, adminNotes \in NoteInputs,
          verificationStatus \in VerificationInputs :
            confirmOrder(orderId, adminNotes, verificationStatus)
    /\ UNCHANGED <<mailDown, saveDown, calls>>

AdvanceStatusById ==
    /\ \E orderId \in IdInputs, status \in StatusInputs, adminNotes \in NoteInputs :
            updateOrderStatus(orderId, status, adminNotes)
    /\ UNCHANGED <<mailDown, saveDown, calls>>

NextLookup ==
    \/ CreateOrder
    \/ DecideById
    \/ AdvanceStatusById

SpecLookup == Init /\ [][NextLookup]_vars

\* ------------------------------------------------- createOrder calls in flight
\* Call c starts and runs createOrder up to the answer of Payment.findOne.
createOrderLookup(c, req) ==
    /\ c = Len(calls) + 1
    /\ IF createOrderCheck(req) # 0
       THEN /\ Reject("createOrder", 0, "", createOrderCheck(req))
            /\ calls' = Append(calls,
                            [pc |-> "done", req |-> req, code |-> createOrderCheck(req)])
       ELSE /\ calls' = Append(calls, [pc |-> "checked", req |-> req, code |-> 0])
            /\ UNCHANGED <<store, now, lastOp, outbox, decisionMails, sweepMails>>
    /\ UNCHANGED <<mailDown, saveDown>>

\* Call c goes on from the answer of Payment.findOne to its response.
createOrderInsert(c) ==
    /\ c \in DOMAIN calls
    /\ calls[c].pc = "checked"
    /\ createOrderSave(calls[c].req)
    /\ calls' = [calls EXCEPT ![c] = [pc |-> "done", req |-> @.req, code |-> lastOp'.code]]
    /\ UNCHANGED <<mailDown, saveDown>>

Lookup == \E c \in Calls, req \in CreateInputs : createOrderLookup(c, req)
Insert == \E c \in Calls : createOrderInsert(c)

NextCreate ==
    \/ Lookup
    \/ Insert

SpecCreate == Init /\ [][NextCreate]_vars

\* ------------------------------------------------ sweeps over decided orders
SweepUtrs == <<"100000000001", "100000000002", "100000000003">>

\* The document of an order created at hour t with the given UTR and decided,
\* with the given verificationStatus, at hour 1.
decidedOrder(utr, t, verificationStatus) ==
    [utr |-> utr, amount |-> EXPECTED_TOTAL, price |-> FIXED_BOOK_PRICE,
     state |-> "Telangana", verificationStatus |-> verificationStatus,
     orderStatus |-> orderStatusAfter(verificationStatus), adminNotes |-> "",
     createdAt |-> t,
     confirmedDate |-> IF verificationStatus = "verified" THEN 1 ELSE NullDate,
     shippedDate |-> Unset, deliveredDate |-> Unset,
     emailSent |-> FALSE, emailSentDate |-> Unset]

\* The outcome of the o-th decision when the outcomes alternate from the first on.
alternating(first, o) ==
    IF o % 2 = 1 THEN first
    ELSE IF first = "verified" THEN "failed" ELSE "verified"

\* SweepOrders orders were created at hours 0 and 1 and each was decided at
\* hour 1, the last one last, with alternating outcomes; confirmOrder sent its
\* own e-mail for each.
InitSweep ==
    /\ now = 1
    /\ store \in {[o \in 1..SweepOrders |->
                    decidedOrder(SweepUtrs[o], t[o], alternating(first, o))] :
                    t \in [1..SweepOrders -> 0..1], first \in {"verified", "failed"}}
    /\ \A o \in 1..SweepOrders : \A p \in 1..SweepOrders :
            o < p => store[o].createdAt <= store[p].createdAt
    /\ lastOp = Op("confirmOrder", SweepOrders, store[SweepOrders].verificationStatus, 200)
    /\ outbox = IF store[SweepOrders].verificationStatus = "verified"
                THEN <<Mail("order-confirmed", SweepOrders, TRUE)>>
                ELSE <<Mail("order-cancelled", SweepOrders, TRUE)>>
    /\ decisionMails = [o \in 1..SweepOrders |-> 1]
    /\ sweepMails = [o \in 1..SweepOrders |-> 0]
    /\ mailDown = {}
    /\ saveDown = {}
    /\ calls = <<>>

NextSweepMail ==
    \/ Sweeper
    \/ Tick
    \/ MailFault

SpecSweepMail == InitSweep /\ [][NextSweepMail]_vars

NextSweepFault ==
    \/ Sweeper
    \/ Tick
    \/ MailFault
    \/ StoreFault

SpecSweepFault == InitSweep /\ [][NextSweepFault]_vars

\* ------------------------------------------- updateOrderStatus calls in flight
\* Call c starts and runs updateOrderStatus from the request to the call of
\* order.save(): validation, Payment.findById and the assignments, made on the
\* document as it was read.
updateOrderStatusRead(c, orderId, status, adminNotes) ==
    IF status \notin validStatuses
    THEN Reject("updateOrderStatus", orderId, status, 400) /\ UNCHANGED calls
    ELSE IF ~objectIdValid(orderId)
    THEN Reject("updateOrderStatus", orderId, status, 500) /\ UNCHANGED calls
    ELSE IF orderId \notin DOMAIN store
    THEN Reject("updateOrderStatus", orderId, status, 404) /\ UNCHANGED calls
    ELSE
        /\ c = Len(calls) + 1
        /\ calls' = Append(calls,
                        [pc |-> "saving", id |-> orderId, status |-> status,
                         was |-> store[orderId],
                         doc |-> updateOrderStatusWrites(store[orderId], status, adminNotes)])
        /\ UNCHANGED <<store, now, lastOp, outbox, decisionMails, sweepMails>>

\* What save() writes of a document: the paths whose value the handler changed.
savedPaths(stored, was, doc) ==
    [stored EXCEPT
        !.orderStatus = IF doc.orderStatus # was.orderStatus THEN doc.orderStatus ELSE @,
        !.adminNotes = IF doc.adminNotes # was.adminNotes THEN doc.adminNotes ELSE @,
        !.shippedDate = IF doc.shippedDate # was.shippedDate THEN doc.shippedDate ELSE @,
        !.deliveredDate = IF doc.deliveredDate # was.deliveredDate THEN doc.deliveredDate ELSE @]

\* Call c goes on from order.save() to its response.
updateOrderStatusSave(c) ==
    /\ c \in DOMAIN calls
    /\ calls[c].pc = "saving"
    /\ LET mails == sendOrderStatusUpdateEmail(calls[c].doc, calls[c].id)
       IN /\ store' = [store EXCEPT ![calls[c].id] = savedPaths(@, calls[c].was, calls[c].doc)]
          /\ outbox' = attempted(mails)
          /\ lastOp' = Op("updateOrderStatus", calls[c].id, calls[c].status, respond(mails, 200))
    /\ calls' = [calls EXCEPT ![c].pc = "done"]
    /\ UNCHANGED <<now, decisionMails, sweepMails>>

AdvanceRead ==
    /\ \E c \in Calls, orderId \in OrderIds, status \in StatusInputs, adminNotes \in NoteInputs :
            updateOrderStatusRead(c, orderId, status, adminNotes)
    /\ UNCHANGED <<mailDown, saveDown>>

AdvanceSave ==
    /\ \E c \in Calls : updateOrderStatusSave(c)
    /\ UNCHANGED <<mailDown, saveDown>>

NextAdvance ==
    \/ CreateOrder
    \/ AdvanceRead
    \/ AdvanceSave
    \/ Tick

SpecAdvance == Init /\ [][NextAdvance]_vars

\* ------------------------------------------------------ sweeps in flight
\* The documents Payment.find hands to the loop: each keeps the orderStatus
\* read by the query.
RECURSIVE loaded(_)
loaded(ids) ==
    IF ids = <<>> THEN <<>>
    ELSE <<[id |-> Head(ids), orderStatus |-> store[Head(ids)].orderStatus]>>
            \o loaded(Tail(ids))

\* Run c of checkAndSendEmails starts and gets the answer of Payment.find.
sweepQuery(c) ==
    /\ c = Len(calls) + 1
    /\ calls' = Append(calls,
                    [pc |-> IF found(1) = <<>> THEN "done" ELSE "send",
                     todo |-> loaded(found(1))])
    /\ UNCHANGED <<store, now, lastOp, outbox, decisionMails, sweepMails>>

\* Run c goes on to the send of sendStatusEmail for the next document of its
\* list: the template is chosen by the orderStatus the document was loaded with.
sweepSend(c) ==
    /\ c \in DOMAIN calls
    /\ calls[c].pc = "send"
    /\ LET order == Head(calls[c].todo)
           mails == sendStatusEmail(order, order.id, sendOk(1))
       IN /\ outbox' = mails
          /\ sweepMails' = [sweepMails EXCEPT ![order.id] =
                                IF mails # <<>> THEN Inc(@) ELSE @]
          /\ decisionMails' = [decisionMails EXCEPT ![order.id] =
                                IF mails # <<>> THEN Inc(@) ELSE @]
    /\ lastOp' = Op("checkAndSendEmails", 0, "", 0)
    /\ calls' = [calls EXCEPT ![c].pc = "mark"]
    /\ UNCHANGED <<store, now>>

\* sweepSaved of a save() that writes the whole document as it was loaded
sweepSavedWhole(stored, order) ==
    [markSent(stored, sendOk(1)) EXCEPT !.orderStatus = order.orderStatus]

\* What order.save() of sendStatusEmail leaves in the store: the stored
\* document with the two paths the function assigned, and nothing else of the
\* document it had loaded.
sweepSaved(stored, order) == markSent(stored, sendOk(1))

\* Run c goes on to order.save(): the two paths it assigned are written to
\* the stored document, and the loop moves to the next document.
sweepMark(c) ==
    /\ c \in DOMAIN calls
    /\ calls[c].pc = "mark"
    /\ LET order == Head(calls[c].todo)
       IN store' = [store EXCEPT ![order.id] = sweepSaved(@, order)]
    /\ calls' = [calls EXCEPT ![c] =
                    [pc |-> IF Tail(@.todo) = <<>> THEN "done" ELSE "send",
                     todo |-> Tail(@.todo)]]
    /\ UNCHANGED <<now, lastOp, outbox, decisionMails, sweepMails>>

SweepQuery == \E c \in Calls : sweepQuery(c) /\ UNCHANGED <<mailDown, saveDown>>
SweepSend == \E c \in Calls : sweepSend(c) /\ UNCHANGED <<mailDown, saveDown>>
SweepMark == \E c \in Calls : sweepMark(c) /\ UNCHANGED <<mailDown, saveDown>>

NextOverlap ==
    \/ SweepQuery
    \/ SweepSend
    \/ SweepMark
    \/ Decide
    \/ Tick

SpecOverlap == InitSweep /\ [][NextOverlap]_vars

\* One order of two hours of age, decided an hour ago either way, as
\* checkAndSendEmails meets it; confirmOrder sent its own e-mail for it.
InitDue ==
    /\ now = TwoHours
    /\ store \in {<<decidedOrder(SweepUtrs[1], 0, v)>> : v \in {"verified", "failed"}}
    /\ lastOp = Op("confirmOrder", 1, store[1].verificationStatus, 200)
    /\ outbox = IF store[1].verificationStatus = "verified"
                THEN <<Mail("order-confirmed", 1, TRUE)>>
                ELSE <<Mail("order-cancelled", 1, TRUE)>>
    /\ decisionMails = <<1>>
    /\ sweepMails = <<0>>
    /\ mailDown = {}
    /\ saveDown = {}
    /\ calls = <<>>

NextFrame ==
    \/ SweepQuery
    \/ SweepSend
    \/ SweepMark
    \/ Decide
    \/ AdvanceStatus

SpecFrame == InitDue /\ [][NextFrame]_vars

\* ========================================================== properties
DecisionKinds == {"order-confirmed", "order-cancelled"}

\* The mails of a sequence of attempts that are decision e-mails for order o.
DecisionMailsFor(box, o) ==
    {i \in DOMAIN box : box[i].id = o /\ box[i].kind \in DecisionKinds}

\* A date field read as the claims read it: null and undefined are both "unset".
DateValue(d) == IF IsSet(d) THEN d ELSE Unset

\* The step is a request handler or a sweep: time stands still and the
\* environment does not move.
Handled == now' = now /\ mailDown' = mailDown /\ saveDown' = saveDown

\* C1: every decision transition (a Decide that moves an order out of pending)
\* triggers at most one decision e-mail, counting the Decide handler and the
\* Sweeper together, and each decision e-mail attempted is of the kind of the
\* order's stored outcome (confirmed: success mail, cancelled: failure mail).
C1_OneDecisionMailPerTransition ==
    /\ \A o \in DOMAIN store : decisionMails[o] <= 1
    /\ \A i \in DOMAIN outbox :
        /\ outbox[i].kind = "order-confirmed" => store[outbox[i].id].orderStatus = "confirmed"
        /\ outbox[i].kind = "order-cancelled" => store[outbox[i].id].orderStatus = "cancelled"

\* C2: no decision e-mail is attempted by a Decide call; a decision e-mail is
\* attempted only by the Sweeper, so only once the order is at least two hours old.
C2_DecideSendsNoMail ==
    \A i \in DOMAIN outbox :
        outbox[i].kind \in DecisionKinds => lastOp.op = "checkAndSendEmails"

\* C3: over sweep runs that each complete before the next starts, with Decide
\* and AdvanceStatus calls in between, the Sweeper attempts at most one decision
\* e-mail per order, and a run that finds emailSent true attempts nothing for
\* that order.
C3_SweeperIdempotent ==
    /\ [](\A o \in DOMAIN store : sweepMails[o] <= 1)
    /\ [][\A o \in DOMAIN store :
            (Handled /\ lastOp'.op = "checkAndSendEmails" /\ store[o].emailSent = TRUE)
            => /\ DecisionMailsFor(outbox', o) = {}
               /\ sweepMails'[o] = sweepMails[o]]_vars

\* A second sweep has run over an order whose flag an earlier sweep set: it
\* attempted nothing.
C3_Witness ==
    /\ lastOp.op = "checkAndSendEmails"
    /\ outbox = <<>>
    /\ \E o \in DOMAIN store :
        /\ store[o].emailSent = TRUE
        /\ sweepMails[o] = 1
        /\ store[o].orderStatus \in {"confirmed", "cancelled"}

\* C4: a sweep attempts a decision e-mail for an order and sets its emailSent
\* flag only if, at the query, orderStatus is confirmed or cancelled, the order
\* is at least two hours old (from creation) and emailSent is not true; for an
\* order that passes the three guards it sets the flag, stamps the date and
\* attempts exactly one e-mail; for any other order it attempts nothing and
\* leaves the document as it is.
C4_SweeperGuards ==
    [][(Handled /\ lastOp'.op = "checkAndSendEmails") =>
        \A o \in DOMAIN store :
            LET guards == /\ store[o].orderStatus \in {"confirmed", "cancelled"}
                          /\ now - store[o].createdAt >= TwoHours
                          /\ store[o].emailSent # TRUE
                mails == {i \in DOMAIN outbox' : outbox'[i].id = o}
            IN  /\ guards =>
                    /\ store'[o].emailSent = TRUE
                    /\ store'[o].emailSentDate = now
                    /\ Cardinality(mails) = 1
                    /\ sweepMails'[o] = sweepMails[o] + 1
                /\ ~guards =>
                    /\ store'[o] = store[o]
                    /\ mails = {}
                    /\ sweepMails'[o] = sweepMails[o]]_vars

\* A sweep has just sent the e-mail of an order decided as cancelled, exactly
\* two hours after its creation.
C4_Witness ==
    /\ lastOp.op = "checkAndSendEmails"
    /\ \E o \in DOMAIN store :
        /\ outbox = <<Mail("order-cancelled", o, TRUE)>>
        /\ store[o].emailSent = TRUE
        /\ store[o].emailSentDate = now
        /\ store[o].createdAt + TwoHours = now

\* The edges of the order lifecycle.
LifecycleEdges ==
    {<<"pending", "confirmed">>, <<"confirmed", "processing">>,
     <<"processing", "shipped">>, <<"shipped", "delivered">>,
     <<"pending", "cancelled">>}

\* C5: every change of an order's orderStatus follows one edge of the lifecycle
\* pending -> confirmed -> processing -> shipped -> delivered, pending -> cancelled.
C5_LifecycleEdgesOnly ==
    [][\A o \in DOMAIN store :
        store'[o].orderStatus # store[o].orderStatus
        => <<store[o].orderStatus, store'[o].orderStatus>> \in LifecycleEdges]_vars

\* C6: delivered and cancelled are terminal: no step changes the orderStatus of
\* an order that is delivered or cancelled.
C6_TerminalStatuses ==
    [][\A o \in DOMAIN store :
        store[o].orderStatus \in {"delivered", "cancelled"}
        => store'[o].orderStatus = store[o].orderStatus]_vars

\* C7: after an accepted Decide whose verificationStatus is verified, failed or
\* omitted, the stored payment.verificationStatus is the outcome given, and
\* orderStatus is confirmed exactly when payment.verificationStatus is verified
\* and cancelled otherwise.
C7_DecideResult ==
    (lastOp.op = "confirmOrder" /\ lastOp.code = 200
        /\ lastOp.arg \in {"", "verified", "failed"})
    => LET order == store[lastOp.id] IN
        /\ lastOp.arg # "" => order.verificationStatus = lastOp.arg
        /\ order.orderStatus =
            (IF order.verificationStatus = "verified" THEN "confirmed" ELSE "cancelled")

\* C8: a second Decide(orderId, verified, notes) right after a first one (no
\* other request in between) leaves orderStatus, payment.verificationStatus,
\* adminNotes and confirmedDate as the first call left them.
C8_DecideVerifiedIdempotent ==
    [][\A o \in DOMAIN store :
        (/\ lastOp = Op("confirmOrder", o, "verified", 200)
         /\ lastOp' = lastOp
         /\ Handled
         /\ store'[o].adminNotes = store[o].adminNotes)
        => /\ store'[o].orderStatus = store[o].orderStatus
           /\ store'[o].verificationStatus = store[o].verificationStatus
           /\ store'[o].confirmedDate = store[o].confirmedDate]_vars

\* C9: an accepted Decide with outcome failed leaves confirmedDate as it was:
\* unset stays unset and a date that was set is kept.
C9_DecideFailedKeepsConfirmedDate ==
    [][\A o \in DOMAIN store :
        (Handled /\ lastOp' = Op("confirmOrder", o, "failed", 200))
        => DateValue(store'[o].confirmedDate) = DateValue(store[o].confirmedDate)]_vars

\* C10: over AdvanceStatus calls, shippedDate is set (to the time of the call)
\* by the first call that enters shipped and deliveredDate by the first call
\* that enters delivered; a date that is set is left unchanged by every later
\* AdvanceStatus call, whatever its target; and each date is unset or not
\* earlier than the order's creation time.
C10_ShippedDeliveredDates ==
    /\ [](\A o \in DOMAIN store :
            /\ IsSet(store[o].shippedDate) => store[o].shippedDate >= store[o].createdAt
            /\ IsSet(store[o].deliveredDate) => store[o].deliveredDate >= store[o].createdAt)
    /\ [][\A o \in DOMAIN store :
            (Handled /\ lastOp'.op = "updateOrderStatus" /\ lastOp'.id = o
                /\ lastOp'.code = 200)
            => /\ IsSet(store[o].shippedDate)
                    => store'[o].shippedDate = store[o].shippedDate
               /\ IsSet(store[o].deliveredDate)
                    => store'[o].deliveredDate = store[o].deliveredDate
               /\ ~IsSet(store[o].shippedDate)
                    => store'[o].shippedDate =
                        (IF lastOp'.arg = "shipped" THEN now ELSE store[o].shippedDate)
               /\ ~IsSet(store[o].deliveredDate)
                    => store'[o].deliveredDate =
                        (IF lastOp'.arg = "delivered" THEN now ELSE store[o].deliveredDate)]_vars

\* An order shipped, delivered later, and then moved to shipped again by a
\* further call, at a later time than its shippedDate.
C10_Witness ==
    /\ lastOp.op = "updateOrderStatus"
    /\ lastOp.arg = "shipped"
    /\ lastOp.code = 200
    /\ \E o \in DOMAIN store :
        /\ lastOp.id = o
        /\ store[o].orderStatus = "shipped"
        /\ IsSet(store[o].shippedDate)
        /\ IsSet(store[o].deliveredDate)
        /\ store[o].deliveredDate > store[o].shippedDate

\* C11: a createOrder request whose required fields are all present and
\* well-formed, whose book code is in the catalog, whose UTR is on no stored
\* order, whose state is in the allow-list and whose amount is 35 is answered
\* 201, and the order it stores has orderStatus pending,
\* payment.verificationStatus pending and emailSent false.
C11_ValidCreateSucceeds ==
    [][\A req \in CreateInputs :
        (/\ ~req.missing
         /\ mobileValidator(req.mobile)
         /\ pincodeValidator(req.pincode)
         /\ utrValidator(req.utr)
         /\ req.bookCode \in Catalog
         /\ \A o \in DOMAIN store : store[o].utr # req.utr
         /\ req.state \in {"Andhra Pradesh", "Telangana", "Odisha"}
         /\ req.amount = 35
         /\ createOrder(req))
        => /\ lastOp'.code = 201
           /\ Len(store') = Len(store) + 1
           /\ store'[Len(store')].utr = req.utr
           /\ store'[Len(store')].orderStatus = "pending"
           /\ store'[Len(store')].verificationStatus = "pending"
           /\ store'[Len(store')].emailSent = FALSE]_vars

\* An order for Odisha has just been created.
C11_Witness ==
    /\ lastOp = Op("createOrder", 1, "", 201)
    /\ store[1].state = "Odisha"
    /\ store[1].orderStatus = "pending"
    /\ store[1].verificationStatus = "pending"
    /\ store[1].emailSent = FALSE

\* C12: a createOrder call that is answered with a failure leaves the store as
\* it was and attempts no notification.
C12_FailedCreateChangesNothing ==
    [][(Handled /\ lastOp'.op = "createOrder" /\ lastOp'.code # 201)
        => /\ store' = store
           /\ outbox' = <<>>]_vars

\* A createOrder was refused for the UTR of the order already stored, which
\* had notifications of its own before.
C12_Witness ==
    /\ lastOp = Op("createOrder", 0, "", 400)
    /\ outbox = <<>>
    /\ Len(store) = 1
    /\ store[1].orderStatus = "delivered"

\* C13: every stored order has payment.amount 35 (book price 1 + delivery 34),
\* bookDetails.price 1 and address.state in the allow-list, and no step changes
\* these fields of a stored order.
C13_FixedPriceAndState ==
    /\ [](\A o \in DOMAIN store :
            /\ store[o].amount = 35
            /\ store[o].amount = FIXED_BOOK_PRICE + DELIVERY_CHARGE
            /\ store[o].price = 1
            /\ store[o].state \in {"Andhra Pradesh", "Telangana", "Odisha"})
    /\ [][\A o \in DOMAIN store :
            /\ store'[o].amount = store[o].amount
            /\ store'[o].price = store[o].price
            /\ store'[o].state = store[o].state]_vars

\* An order that was decided, swept and moved on to delivered.
C13_Witness ==
    \E o \in DOMAIN store :
        /\ store[o].orderStatus = "delivered"
        /\ store[o].emailSent = TRUE
        /\ store[o].verificationStatus = "verified"
        /\ store[o].amount = 35

\* C14: no two stored orders carry the same UTR, in every state of every
\* interleaving of createOrder calls that each look the UTR up and insert
\* later: the unique index refuses the later insert.
C14_UtrUnique ==
    \A o \in DOMAIN store : \A p \in DOMAIN store :
        o # p => store[o].utr # store[p].utr

\* Two calls carried the same request, both looked the UTR up before either
\* inserted; the first insert was stored and the second was refused.
C14_Witness ==
    /\ Len(calls) = 2
    /\ calls[1] = [pc |-> "done", req |-> ValidRequest, code |-> 201]
    /\ calls[2] = [pc |-> "done", req |-> ValidRequest, code |-> 500]
    /\ Len(store) = 1
    /\ store[1].utr = ValidRequest.utr

\* C15: a createOrder call that is refused because its UTR is on a stored
\* order, the request being acceptable otherwise, is answered 400, whether
\* that order was stored before the call started or between the call's lookup
\* and its insert.
C15_DuplicateUtrIs400 ==
    \A c \in DOMAIN calls :
        (/\ calls[c].pc = "done"
         /\ calls[c].code # 201
         /\ ~calls[c].req.missing
         /\ schemaValid(calls[c].req)
         /\ calls[c].req.bookCode \in Catalog
         /\ calls[c].req.state \in allowedStates
         /\ calls[c].req.amount = EXPECTED_TOTAL
         /\ \E o \in DOMAIN store : store[o].utr = calls[c].req.utr)
        => calls[c].code = 400

\* C16: a createOrder request with a required field missing, a mobile that is
\* not 10 digits, a pincode that is not 6 digits, a UTR that is not 12 digits
\* or a state outside the allow-list is answered 400 and stores nothing.
C16_MalformedIs400 ==
    [][\A req \in CreateInputs :
        (/\ \/ req.missing
            \/ ~mobileValidator(req.mobile)
            \/ ~pincodeValidator(req.pincode)
            \/ ~utrValidator(req.utr)
            \/ req.state \notin allowedStates
         /\ createOrder(req))
        => /\ lastOp'.code = 400
           /\ store' = store]_vars

\* C17: a notification that fails neither fails nor undoes the operation: a
\* createOrder, confirmOrder or updateOrderStatus call that got as far as its
\* notifications answers 201 / 200 and has stored its change, and has made
\* every attempt it makes when all succeed, whether each attempt (transporter
\* construction included) succeeded or failed.
C17_MailFailureSwallowed ==
    [][(Handled /\ outbox' # <<>>) =>
        /\ lastOp'.op = "createOrder" =>
            /\ lastOp'.code = 201
            /\ Len(store') = Len(store) + 1
            /\ store'[Len(store')].orderStatus = "pending"
            /\ Len(outbox') = 2
        /\ lastOp'.op = "confirmOrder" =>
            /\ lastOp'.code = 200
            /\ store'[lastOp'.id].orderStatus =
                (IF lastOp'.arg = "verified" THEN "confirmed" ELSE "cancelled")
            /\ Len(outbox') = 1
        /\ lastOp'.op = "updateOrderStatus" =>
            /\ lastOp'.code = 200
            /\ store'[lastOp'.id].orderStatus = lastOp'.arg
            /\ Len(outbox') = 1]_vars

\* An order was created and answered 201 although both of its notifications failed.
C17_Witness ==
    /\ lastOp = Op("createOrder", 1, "", 201)
    /\ outbox = <<Mail("admin-new-order", 1, FALSE),
                  Mail("customer-order-received", 1, FALSE)>>
    /\ Len(store) = 1

\* C18: the emailSent flag is monotone: no step resets a true flag to false,
\* and a confirmOrder call (on a decided order too, with the same or another
\* outcome) and an updateOrderStatus call leave the flag of every order as it is.
C18_SentFlagMonotone ==
    /\ [][\A o \in DOMAIN store :
            store[o].emailSent = TRUE => store'[o].emailSent = TRUE]_vars
    /\ [][(Handled /\ lastOp'.op \in {"confirmOrder", "updateOrderStatus"})
            => \A o \in DOMAIN store : store'[o].emailSent = store[o].emailSent]_vars

\* A confirmOrder with outcome failed has run on an order that a sweep had
\* flagged before, hence on an order that was decided already.
C18_Witness ==
    /\ lastOp.op = "confirmOrder"
    /\ lastOp.arg = "failed"
    /\ lastOp.code = 200
    /\ store[lastOp.id].emailSent = TRUE
    /\ store[lastOp.id].orderStatus = "cancelled"
    /\ sweepMails[lastOp.id] = 1

\* C19: for every order a sweep selects, the sweep sets emailSent and stamps
\* emailSentDate after the send attempt, whether the send succeeded or failed;
\* so no order is attempted by a second sweep, and a true flag always comes
\* with a stamped date.
C19_MarkedWhateverTheSend ==
    /\ [](\A o \in DOMAIN store :
            /\ sweepMails[o] <= 1
            /\ store[o].emailSent = TRUE => IsSet(store[o].emailSentDate))
    /\ [][(Handled /\ lastOp'.op = "checkAndSendEmails") =>
            \A i \in DOMAIN outbox' :
                /\ store[outbox'[i].id].emailSent = FALSE
                /\ store'[outbox'[i].id].emailSent = TRUE
                /\ store'[outbox'[i].id].emailSentDate = now]_vars

\* A sweep selected two orders; the send failed for the first and succeeded
\* for the second, and both are flagged.
C19_Witness ==
    /\ lastOp.op = "checkAndSendEmails"
    /\ Len(outbox) = 2
    /\ ~outbox[1].ok
    /\ outbox[2].ok
    /\ \A i \in DOMAIN outbox :
        /\ store[outbox[i].id].emailSent = TRUE
        /\ store[outbox[i].id].emailSentDate = now

\* C20: a sweep does not stop early: it attempts the notification of every
\* order its query returned, whatever failed (send or store write) for the
\* orders it treated before, and then ends.
C20_SweepReachesEveryOrder ==
    [][(Handled /\ lastOp'.op = "checkAndSendEmails") =>
        \A o \in DOMAIN store :
            (/\ store[o].orderStatus \in {"confirmed", "cancelled"}
             /\ now - store[o].createdAt >= TwoHours
             /\ store[o].emailSent # TRUE)
            => Cardinality({i \in DOMAIN outbox' : outbox'[i].id = o}) = 1]_vars

\* A sweep found two orders: for the first the send and the write of the flag
\* both failed, and the second was attempted and flagged all the same.
C20_Witness ==
    /\ lastOp.op = "checkAndSendEmails"
    /\ Len(outbox) = 2
    /\ ~outbox[1].ok
    /\ store[outbox[1].id].emailSent = FALSE
    /\ store[outbox[2].id].emailSent = TRUE

\* C21: updateOrderStatus accepts only the status values processing, shipped
\* and delivered: a call on a stored order with any other value (pending,
\* confirmed, cancelled, an unknown string) is answered 400, leaves the order
\* as it is and attempts no notification.
C21_OnlyFulfilmentStatuses ==
    [][(/\ Handled
        /\ lastOp'.op = "updateOrderStatus"
        /\ lastOp'.id \in DOMAIN store
        /\ lastOp'.arg \notin {"processing", "shipped", "delivered"})
        => /\ lastOp'.code = 400
           /\ store' = store
           /\ outbox' = <<>>]_vars

\* C22: an updateOrderStatus call answered 200 attempts exactly one customer
\* notification, about the new status, when the order is left at processing,
\* shipped or delivered, and none when it is left at any other status.
C22_OneStatusMail ==
    [][(Handled /\ lastOp'.op = "updateOrderStatus" /\ lastOp'.code = 200) =>
        LET o == lastOp'.id IN
        IF store'[o].orderStatus \in {"processing", "shipped", "delivered"}
        THEN /\ Len(outbox') = 1
             /\ outbox'[1].id = o
             /\ outbox'[1].kind = store'[o].orderStatus
        ELSE outbox' = <<>>]_vars

\* An order was moved to shipped, with its one notification attempted (and
\* failed), after an earlier call had left it at cancelled.
C22_Witness ==
    /\ lastOp = Op("updateOrderStatus", 1, "shipped", 200)
    /\ outbox = <<Mail("shipped", 1, FALSE)>>
    /\ store[1].orderStatus = "shipped"
    /\ store[1].verificationStatus = "failed"

\* C28: an order whose orderStatus is confirmed, processing, shipped or
\* delivered has payment.verificationStatus verified.
C28_FulfilmentImpliesVerified ==
    \A o \in DOMAIN store :
        store[o].orderStatus \in {"confirmed", "processing", "shipped", "delivered"}
        => store[o].verificationStatus = "verified"

\* C29: an order that is confirmed has its confirmedDate set, one that is
\* shipped its shippedDate and one that is delivered its deliveredDate.
C29_StatusImpliesDate ==
    \A o \in DOMAIN store :
        /\ store[o].orderStatus = "confirmed" => IsSet(store[o].confirmedDate)
        /\ store[o].orderStatus = "shipped" => IsSet(store[o].shippedDate)
        /\ store[o].orderStatus = "delivered" => IsSet(store[o].deliveredDate)

\* C23: a confirmOrder call, and an updateOrderStatus call with a valid
\* status, that names an identifier of no stored order is answered 404,
\* changes no stored order and attempts no notification.
C23_UnknownOrderIs404 ==
    [][(/\ Handled
        /\ lastOp'.op \in {"confirmOrder", "updateOrderStatus"}
        /\ lastOp'.op = "updateOrderStatus" => lastOp'.arg \in validStatuses
        /\ lastOp'.id \notin DOMAIN store)
        => /\ lastOp'.code = 404
           /\ store' = store
           /\ outbox' = <<>>]_vars

\* C24: once a confirmOrder call has decided an order, and with the sweep
\* running again and again and the clock moving on, the order's emailSent
\* flag is eventually true, whatever updateOrderStatus calls come in between.
C24_DecidedEventuallyMarked ==
    \A o \in OrderIds :
        (lastOp.op = "confirmOrder" /\ lastOp.code = 200 /\ lastOp.id = o)
            ~> (o \in DOMAIN store /\ store[o].emailSent = TRUE)

\* C27: when the write of the emailSent flag fails after the sweep attempted
\* the send of an order, the sweep goes on, the flag stays false, and the
\* sweeps, this one and the later ones, still attempt at most one decision
\* e-mail for the order.
C27_FailedMarkStillOnce ==
    /\ [][(Handled /\ lastOp'.op = "checkAndSendEmails") =>
            \A k \in DOMAIN outbox' :
                k \in saveDown
                => /\ store'[outbox'[k].id].emailSent = FALSE
                   /\ store'[outbox'[k].id] = store[outbox'[k].id]]_vars
    /\ [](\A o \in DOMAIN store : sweepMails[o] <= 1)

\* C25: when runs of the sweep overlap, their queries, sends and flag writes
\* interleaved, the runs together still attempt at most one decision e-mail
\* per order.
C25_OverlappingSweepsOnce ==
    \A o \in DOMAIN store :
        \/ sweepMails[o] = 0
        \/ sweepMails[o] = 1

\* C26: the decision e-mail a sweep attempts for an order is of the kind of
\* the orderStatus stored when the sweep sets the order's emailSent flag, also
\* when a confirmOrder call changed the outcome between the sweep's query and
\* its send and flag write.
C26_MailMatchesStoredStatus ==
    [][\A c \in DOMAIN calls :
        (calls[c].pc = "mark" /\ calls'[c].pc # "mark")
        => LET order == Head(calls[c].todo)
           IN /\ store'[order.id].emailSent = TRUE
              /\ store'[order.id].orderStatus = order.orderStatus]_vars

\* C30: shippedDate and deliveredDate are each written once, also when
\* updateOrderStatus calls with the same target overlap, each reading the
\* order, testing the date and saving later: a date that is stored is never
\* replaced, so the value stored last is the value written first.
C30_DatesWrittenOnce ==
    [][\A o \in DOMAIN store :
        /\ IsSet(store[o].shippedDate)
            => store'[o].shippedDate = store[o].shippedDate
        /\ IsSet(store[o].deliveredDate)
            => store'[o].deliveredDate = store[o].deliveredDate]_vars

\* C31: in createOrder, confirmOrder and updateOrderStatus every notification
\* attempt comes after the store write of the call has succeeded; when the
\* write fails the call is answered 500, nothing is stored and no
\* notification is attempted.
C31_CommitBeforeNotify ==
    [][(Handled /\ lastOp'.op \in {"createOrder", "confirmOrder", "updateOrderStatus"}) =>
        /\ 1 \in saveDown =>
            /\ store' = store
            /\ outbox' = <<>>
            /\ lastOp'.code \notin {200, 201}
        /\ (/\ 1 \in saveDown
            /\ lastOp'.id \in DOMAIN store
            /\ \/ lastOp'.op = "confirmOrder" /\ lastOp'.arg \in {"", "verified", "failed", "pending"}
               \/ lastOp'.op = "updateOrderStatus" /\ lastOp'.arg \in validStatuses)
            => lastOp'.code = 500
        /\ \A req \in CreateInputs :
            (/\ 1 \in saveDown
             /\ createOrderCheck(req) = 0
             /\ schemaValid(req)
             /\ createOrder(req))
            => lastOp'.code = 500
        /\ outbox' # <<>> =>
            /\ 1 \notin saveDown
            /\ lastOp'.code \in {200, 201}
            /\ lastOp'.op = "createOrder" => Len(store') = Len(store) + 1
            /\ lastOp'.op = "confirmOrder" =>
                store'[lastOp'.id].orderStatus =
                    (IF lastOp'.arg = "verified" THEN "confirmed" ELSE "cancelled")
            /\ lastOp'.op = "updateOrderStatus" =>
                store'[lastOp'.id].orderStatus = lastOp'.arg]_vars

\* A confirmOrder call on a pending order met a failing store write: it was
\* answered 500, the order is still pending and nothing was sent.
C31_Witness ==
    /\ lastOp = Op("confirmOrder", 1, "verified", 500)
    /\ 1 \in saveDown
    /\ outbox = <<>>
    /\ Len(store) = 1
    /\ store[1].orderStatus = "pending"

\* C33: a createOrder call answered 201 attempts exactly two notifications,
\* the admin-new-order one first and the customer-order-received one second,
\* the second also when the first failed.
C33_TwoMailsInOrder ==
    [][(Handled /\ lastOp'.op = "createOrder" /\ lastOp'.code = 201) =>
        /\ Len(outbox') = 2
        /\ outbox'[1].kind = "admin-new-order"
        /\ outbox'[2].kind = "customer-order-received"
        /\ outbox'[1].id = Len(store')
        /\ outbox'[2].id = Len(store')
        /\ Len(store') = Len(store) + 1]_vars

\* An order was created; its admin notification failed and its customer
\* notification was attempted after it and went out.
C33_Witness ==
    /\ lastOp = Op("createOrder", 1, "", 201)
    /\ outbox = <<Mail("admin-new-order", 1, FALSE),
                  Mail("customer-order-received", 1, TRUE)>>

\* C32: emailSent and emailSentDate of an order are written by the Sweeper
\* only (never by confirmOrder or updateOrderStatus), and the Sweeper's write
\* to an order changes no other field of it, also when a confirmOrder or an
\* updateOrderStatus call on the order came between the Sweeper's query and
\* its write.
C32_FlagFrame ==
    [][\A o \in DOMAIN store :
        LET marking == \E c \in DOMAIN calls :
                            /\ calls[c].pc = "mark"
                            /\ Head(calls[c].todo).id = o
                            /\ calls'[c] # calls[c]
        IN /\ (\/ store'[o].emailSent # store[o].emailSent
               \/ store'[o].emailSentDate # store[o].emailSentDate) => marking
           /\ marking =>
                /\ store'[o] = [store[o] EXCEPT !.emailSent = store'[o].emailSent,
                                                !.emailSentDate = store'[o].emailSentDate]
                /\ lastOp' = lastOp]_vars

\* The one run of checkAndSendEmails that sent for order 1 had loaded it as
\* confirmed; updateOrderStatus moved the order to shipped before the run's
\* send (no request was handled after it), and the run's save() then set the
\* flag and left the order shipped.
C32_Witness ==
    /\ lastOp.op = "checkAndSendEmails"
    /\ outbox = <<Mail("order-confirmed", 1, TRUE)>>
    /\ sweepMails[1] = 1
    /\ store[1].emailSent = TRUE
    /\ store[1].emailSentDate = now
    /\ store[1].orderStatus = "shipped"
    /\ IsSet(store[1].shippedDate)

====
